---- MODULE Spec2Model ----
(***************************************************************************)
(* A model of the form-inputs-react tutorial snapshots:                    *)
(*   - the useInput hook (hooks/use-input.js): a reducer over              *)
(*     {enteredValue, isTouched} with the derived outputs isValid and      *)
(*     hasError, recomputed at every render;                               *)
(*   - the three SimpleInput form snapshots (part_001, SimpleInput.js,     *)
(*     part_000), driven by the same change / blur / submit events.        *)
(* Strings are sequences of characters, so that String.prototype.trim is   *)
(* computed and not assumed.                                               *)
(***************************************************************************)
EXTENDS Naturals, Sequences, FiniteSets

\* Longest string typed into an input.
MaxLen == 2

\* Most lines written to the console by one form.
MaxLog == 2

\* The alphabet of the typed strings: the space and a letter.
Chars == {" ", "a"}

\* The characters String.prototype.trim removes (those of them in Chars).
Whitespace == {" "}

\* Every string of at most MaxLen characters.
Strings == UNION {[1..n -> Chars] : n \in 0..MaxLen}

\* The JavaScript empty string "".
EmptyString == <<>>

VARIABLES
  inputState,     \* useInput: the reducer's state {enteredValue, isTouched}
  hook,           \* useInput: the object returned by the latest render
  validateValue,  \* useInput: the predicate the caller passed, by name
  lastOp,         \* history: the last operation called on the hook
  before,         \* history: inputState when lastOp was called
  committed,      \* history: argument of the last onChange since the last reset
  blurred,        \* history: an onBlur happened since the last reset
  part001,        \* form snapshot part_001: its state and its console
  simpleInput,    \* form snapshot SimpleInput.js: its state and its console
  part000,        \* form snapshot part_000: its state and its console
  lastEvent,      \* history: the last event delivered to the forms
  interacted      \* history: a blur or submit event was delivered

hookVars == <<inputState, hook, validateValue, lastOp, before, committed, blurred>>
formVars == <<part001, simpleInput, part000, lastEvent, interacted>>
vars == <<inputState, hook, validateValue, lastOp, before, committed, blurred,
          part001, simpleInput, part000, lastEvent, interacted>>

----------------------------------------------------------------------------
(* String.prototype.trim *)

RECURSIVE trimStart(_)
trimStart(s) ==
  IF s = EmptyString THEN s
  ELSE IF Head(s) \in Whitespace THEN trimStart(Tail(s)) ELSE s

RECURSIVE trimEnd(_)
trimEnd(s) ==
  IF s = EmptyString THEN s
  ELSE IF s[Len(s)] \in Whitespace THEN trimEnd(SubSeq(s, 1, Len(s) - 1)) ELSE s

\* A validity check that forgets to trim: the string is compared as typed.
trim_forgotten(s) == s

trim(s) == trimEnd(trimStart(s))

----------------------------------------------------------------------------
(* hooks/use-input.js *)

INITIAL_INPUT_STATE == [enteredValue |-> EmptyString, isTouched |-> FALSE]

\* A property the dispatched action object does not carry reads as undefined.
Undefined == "undefined"

\* A reducer whose INPUT_BLUR branch rebuilds the state from the initial one.
inputStateReducer_blurDropsValue(state, action) ==
  CASE action.type = "VALUE_CHANGED" ->
         [enteredValue |-> action.value, isTouched |-> state.isTouched]
    [] action.type = "INPUT_BLUR" ->
         [enteredValue |-> INITIAL_INPUT_STATE.enteredValue,
          isTouched |-> action.value]
    [] OTHER -> INITIAL_INPUT_STATE

\* A reducer whose VALUE_CHANGED branch marks the input as touched.
inputStateReducer_changeTouches(state, action) ==
  CASE action.type = "VALUE_CHANGED" ->
         [enteredValue |-> action.value, isTouched |-> TRUE]
    [] action.type = "INPUT_BLUR" ->
         [enteredValue |-> state.enteredValue, isTouched |-> action.value]
    [] OTHER -> INITIAL_INPUT_STATE

\* A reducer whose RESET_INPUT branch clears the value only.
inputStateReducer_resetKeepsTouched(state, action) ==
  CASE action.type = "VALUE_CHANGED" ->
         [enteredValue |-> action.value, isTouched |-> state.isTouched]
    [] action.type = "INPUT_BLUR" ->
         [enteredValue |-> state.enteredValue, isTouched |-> action.value]
    [] OTHER -> [enteredValue |-> EmptyString, isTouched |-> state.isTouched]

\* A reducer whose INPUT_BLUR branch toggles the flag.
inputStateReducer_blurToggles(state, action) ==
  CASE action.type = "VALUE_CHANGED" ->
         [enteredValue |-> action.value, isTouched |-> state.isTouched]
    [] action.type = "INPUT_BLUR" ->
         [enteredValue |-> state.enteredValue, isTouched |-> ~state.isTouched]
    [] OTHER -> INITIAL_INPUT_STATE

\* A reducer whose default branch returns the state it was given.
inputStateReducer_defaultKeepsState(state, action) ==
  CASE action.type = "VALUE_CHANGED" ->
         [enteredValue |-> action.value, isTouched |-> state.isTouched]
    [] action.type = "INPUT_BLUR" ->
         [enteredValue |-> state.enteredValue, isTouched |-> action.value]
    [] action.type = "RESET_INPUT" -> INITIAL_INPUT_STATE
    [] OTHER -> state

inputStateReducer(state, action) ==
  CASE action.type = "VALUE_CHANGED" ->
         [enteredValue |-> action.value, isTouched |-> state.isTouched]
    [] action.type = "INPUT_BLUR" ->
         [enteredValue |-> state.enteredValue, isTouched |-> action.value]
    [] OTHER -> INITIAL_INPUT_STATE

\* The predicates a caller may pass to useInput, by name.
Predicates == {"notEmptyAfterTrim", "notEmpty", "always", "never", "noWhitespace"}

\* The predicate of the name p applied to the string s.
Validate(p, s) ==
  CASE p = "notEmptyAfterTrim" -> trim(s) # EmptyString
    [] p = "notEmpty" -> s # EmptyString
    [] p = "always" -> TRUE
    [] p = "never" -> FALSE
    [] p = "noWhitespace" -> \A i \in 1..Len(s) : s[i] \notin Whitespace

\* A validity computed from the value of the render before the dispatch.
valueIsValid_stale(validate, state) == Validate(validate, inputState.enteredValue)

\* isValid of a render: validateValue(inputState.enteredValue).
valueIsValid(validate, state) == Validate(validate, state.enteredValue)

\* An error flag that does not wait for the input to be touched.
hasError_ignoresTouched(validate, state) == ~valueIsValid(validate, state)

\* hasError of a render: !valueIsValid && inputState.isTouched.
hasError(validate, state) == ~valueIsValid(validate, state) /\ state.isTouched

\* One render of useInput: the object it returns for the state it reads.
useInput(validate, state) ==
  [value |-> state.enteredValue,
   isValid |-> valueIsValid(validate, state),
   hasError |-> hasError(validate, state)]

\* dispatchInput: the reducer runs on the current state and the hook renders
\* again with the new one.
dispatchInput(action) ==
  /\ inputState' = inputStateReducer(inputState, action)
  /\ hook' = useInput(validateValue, inputState')
  /\ before' = inputState
  /\ UNCHANGED validateValue

valueChangeHandler(s) ==
  /\ dispatchInput([type |-> "VALUE_CHANGED", value |-> s])
  /\ lastOp' = [op |-> "onChange", arg |-> s]
  /\ committed' = s
  /\ UNCHANGED blurred
  /\ UNCHANGED formVars

\* A blur handler that returns early once the input is touched.
inputBlurHandler_onlyOnce ==
  /\ ~inputState.isTouched
  /\ dispatchInput([type |-> "INPUT_BLUR", value |-> TRUE])
  /\ lastOp' = [op |-> "onBlur", arg |-> EmptyString]
  /\ blurred' = TRUE
  /\ UNCHANGED committed
  /\ UNCHANGED formVars

inputBlurHandler ==
  /\ dispatchInput([type |-> "INPUT_BLUR", value |-> TRUE])
  /\ lastOp' = [op |-> "onBlur", arg |-> EmptyString]
  /\ blurred' = TRUE
  /\ UNCHANGED committed
  /\ UNCHANGED formVars

reset ==
  /\ dispatchInput([type |-> "RESET_INPUT", value |-> Undefined])
  /\ lastOp' = [op |-> "reset", arg |-> EmptyString]
  /\ committed' = EmptyString
  /\ blurred' = FALSE
  /\ UNCHANGED formVars

(* The reducer by itself: any action object may reach it. *)

\* Action types the reducer has no branch for; a missing type is undefined.
UnknownTypes == {"UNKNOWN", Undefined}

\* The state each operation of the hook produces from the state st.
onChange(st, s) == inputStateReducer(st, [type |-> "VALUE_CHANGED", value |-> s])
onBlur(st) == inputStateReducer(st, [type |-> "INPUT_BLUR", value |-> TRUE])
onReset(st) == inputStateReducer(st, [type |-> "RESET_INPUT", value |-> Undefined])

\* One call of the reducer with an action object; the histories of the
\* hook's own operations do not follow it.
Reduce(action, arg) ==
  /\ dispatchInput(action)
  /\ lastOp' = [op |-> action.type, arg |-> arg]
  /\ UNCHANGED <<committed, blurred>>
  /\ UNCHANGED formVars

ReduceValueChanged(s) == Reduce([type |-> "VALUE_CHANGED", value |-> s], s)

ReduceInputBlur(b) == Reduce([type |-> "INPUT_BLUR", value |-> b], EmptyString)

ReduceResetInput == Reduce([type |-> "RESET_INPUT", value |-> Undefined], EmptyString)

ReduceUnknown(type) == Reduce([type |-> type, value |-> Undefined], EmptyString)

----------------------------------------------------------------------------
(* The form snapshots.  Each is a record of its useState variables and of  *)
(* the lines it has written to the console.  A handler reads the state of  *)
(* the render it was created in (st) and queues its updates, which React   *)
(* applies in order before the next event is delivered.                    *)

\* console.log(`Submitting form! Name: ${enteredName}`): the line written.
SubmitMessage(name) == <<"Submitting form! Name: ">> \o name

(* part_001: enteredName and a stored validity flag *)

part001_nameInputChangeHandler(st, s) == [st EXCEPT !.enteredName = s]

part001_submitHandler(st) ==
  IF trim(st.enteredName) = EmptyString
  THEN [st EXCEPT !.enteredNameIsValid = FALSE]
  ELSE [st EXCEPT !.log = Append(@, SubmitMessage(st.enteredName)),
                  !.enteredNameIsValid = TRUE,
                  !.enteredName = EmptyString]

\* The error paragraph is rendered: !enteredNameIsValid.
part001_errorShown(st) == ~st.enteredNameIsValid

(* components/SimpleInput.js: a stored validity flag and a touched flag *)

\* The error paragraph is rendered: !enteredNameIsValid && enteredNameTouched.
simpleInput_nameInputIsInvalid(st) ==
  ~st.enteredNameIsValid /\ st.enteredNameTouched

simpleInput_nameInputChangeHandler(st, s) == [st EXCEPT !.enteredName = s]

simpleInput_nameInputBlurHandler(st) ==
  LET touched == [st EXCEPT !.enteredNameTouched = TRUE]
  IN  IF trim(st.enteredName) = EmptyString
      THEN [touched EXCEPT !.enteredNameIsValid = FALSE]
      ELSE touched

\* A submit handler that writes the trimmed name to the console.
simpleInput_submitHandler_logsTrimmed(st) ==
  LET touched == [st EXCEPT !.enteredNameTouched = TRUE]
  IN  IF trim(st.enteredName) = EmptyString
      THEN [touched EXCEPT !.enteredNameIsValid = FALSE]
      ELSE [touched EXCEPT !.log = Append(@, SubmitMessage(trim(st.enteredName))),
                           !.enteredNameIsValid = TRUE,
                           !.enteredName = EmptyString]

simpleInput_submitHandler(st) ==
  LET touched == [st EXCEPT !.enteredNameTouched = TRUE]
  IN  IF trim(st.enteredName) = EmptyString
      THEN [touched EXCEPT !.enteredNameIsValid = FALSE]
      ELSE [touched EXCEPT !.log = Append(@, SubmitMessage(st.enteredName)),
                           !.enteredNameIsValid = TRUE,
                           !.enteredName = EmptyString]

(* part_000: validity derived from the name at every render *)

part000_enteredNameIsValid(st) == trim(st.enteredName) # EmptyString

\* An error flag that does not wait for the input to be touched.
part000_nameInputIsInvalid_ignoresTouched(st) == ~part000_enteredNameIsValid(st)

\* The error paragraph is rendered: !enteredNameIsValid && enteredNameTouched.
part000_nameInputIsInvalid(st) ==
  ~part000_enteredNameIsValid(st) /\ st.enteredNameTouched

part000_nameInputChangeHandler(st, s) == [st EXCEPT !.enteredName = s]

part000_nameInputBlurHandler(st) == [st EXCEPT !.enteredNameTouched = TRUE]

\* A submit handler that queues its touched update after the clearing ones.
part000_submitHandler_touchedLast(st) ==
  LET cleared == IF part000_enteredNameIsValid(st)
                 THEN [st EXCEPT !.log = Append(@, SubmitMessage(st.enteredName)),
                                 !.enteredName = EmptyString,
                                 !.enteredNameTouched = FALSE]
                 ELSE st
  IN  [cleared EXCEPT !.enteredNameTouched = TRUE]

part000_submitHandler(st) ==
  LET touched == [st EXCEPT !.enteredNameTouched = TRUE]
  IN  IF part000_enteredNameIsValid(st)
      THEN [touched EXCEPT !.log = Append(@, SubmitMessage(st.enteredName)),
                           !.enteredName = EmptyString,
                           !.enteredNameTouched = FALSE]
      ELSE touched

FormInit ==
  /\ part001 = [enteredName |-> EmptyString, enteredNameIsValid |-> TRUE,
                log |-> <<>>]
  /\ simpleInput = [enteredName |-> EmptyString, enteredNameIsValid |-> FALSE,
                    enteredNameTouched |-> FALSE, log |-> <<>>]
  /\ part000 = [enteredName |-> EmptyString, enteredNameTouched |-> FALSE,
                log |-> <<>>]
  /\ lastEvent = "init"
  /\ interacted = FALSE

(* The user's events, delivered to the three snapshots alike. *)

\* The input's change event with the new content s.
ChangeEvent(s) ==
  /\ part001' = part001_nameInputChangeHandler(part001, s)
  /\ simpleInput' = simpleInput_nameInputChangeHandler(simpleInput, s)
  /\ part000' = part000_nameInputChangeHandler(part000, s)
  /\ lastEvent' = "change"
  /\ UNCHANGED interacted
  /\ UNCHANGED hookVars

\* The input's blur event; part_001 registers no onBlur handler.
BlurEvent ==
  /\ UNCHANGED part001
  /\ simpleInput' = simpleInput_nameInputBlurHandler(simpleInput)
  /\ part000' = part000_nameInputBlurHandler(part000)
  /\ lastEvent' = "blur"
  /\ interacted' = TRUE
  /\ UNCHANGED hookVars

\* The form's submit event.  The console is kept to MaxLog lines.
SubmitEvent ==
  /\ Len(part001_submitHandler(part001).log) <= MaxLog
  /\ Len(simpleInput_submitHandler(simpleInput).log) <= MaxLog
  /\ Len(part000_submitHandler(part000).log) <= MaxLog
  /\ part001' = part001_submitHandler(part001)
  /\ simpleInput' = simpleInput_submitHandler(simpleInput)
  /\ part000' = part000_submitHandler(part000)
  /\ lastEvent' = "submit"
  /\ interacted' = TRUE
  /\ UNCHANGED hookVars

----------------------------------------------------------------------------
(* Specifications *)

Init ==
  /\ validateValue \in Predicates
  /\ inputState = INITIAL_INPUT_STATE
  /\ hook = useInput(validateValue, inputState)
  /\ lastOp = [op |-> "init", arg |-> EmptyString]
  /\ before = INITIAL_INPUT_STATE
  /\ committed = EmptyString
  /\ blurred = FALSE
  /\ FormInit

Next ==
  \/ \E s \in Strings : valueChangeHandler(s)
  \/ inputBlurHandler
  \/ reset

Spec == Init /\ [][Next]_vars

\* The forms: the caller's predicate plays no part in them.
InitForm == Init /\ validateValue = "notEmptyAfterTrim"

NextForm ==
  \/ \E s \in Strings : ChangeEvent(s)
  \/ BlurEvent
  \/ SubmitEvent

SpecForm == InitForm /\ [][NextForm]_vars

\* The reducer called with every kind of action object.
InitReducer == Init /\ validateValue = "notEmptyAfterTrim"

NextReducer ==
  \/ \E s \in Strings : ReduceValueChanged(s)
  \/ \E b \in BOOLEAN : ReduceInputBlur(b)
  \/ ReduceResetInput
  \/ \E type \in UnknownTypes : ReduceUnknown(type)

SpecReducer == InitReducer /\ [][NextReducer]_vars

----------------------------------------------------------------------------
(* Properties of the useInput hook *)

\* The operations the hook returns to its caller.
Operations == {"onChange", "onBlur", "reset"}

\* C1: after any sequence of onChange / onBlur / reset, the value the hook
\* exposes (and the value it stores) is the argument of the most recent
\* onChange since the last reset, or "" if there was none; right after
\* onChange(s) it is s.
C1_ValueIsLastChange ==
  /\ hook.value = committed
  /\ inputState.enteredValue = committed
  /\ lastOp.op = "onChange" => hook.value = lastOp.arg

\* C1 witness: a value was typed and survived a later blur.
C1_Witness ==
  /\ lastOp.op = "onBlur"
  /\ committed # EmptyString
  /\ before.isTouched
  /\ hook.value = committed

\* C2: in every reachable state and for every predicate, hasError is true
\* iff touched is true and the predicate rejects the current value, and
\* isValid is the predicate applied to the current value.
C2_DerivedOutputs ==
  /\ hook.hasError =
       (inputState.isTouched /\ ~Validate(validateValue, inputState.enteredValue))
  /\ hook.isValid = Validate(validateValue, inputState.enteredValue)

\* C2 witness: a touched input whose new value is rejected although the value
\* before the change was accepted.
C2_Witness ==
  /\ lastOp.op = "onChange"
  /\ inputState.isTouched
  /\ Validate(validateValue, before.enteredValue)
  /\ ~Validate(validateValue, inputState.enteredValue)
  /\ hook.hasError
  /\ ~hook.isValid

\* C3: reset, called in any state, yields the initial state: value "" and
\* touched false.
C3_ResetRestoresInitial ==
  lastOp.op = "reset" =>
    /\ inputState = [enteredValue |-> EmptyString, isTouched |-> FALSE]
    /\ hook.value = EmptyString

\* C3 witness: reset was called on a touched input holding a value.
C3_Witness ==
  /\ lastOp.op = "reset"
  /\ before.isTouched
  /\ before.enteredValue # EmptyString
  /\ inputState = [enteredValue |-> EmptyString, isTouched |-> FALSE]

\* C4: touched is true exactly when an onBlur happened since the last reset
\* (or since initialization); it goes from false to true only by onBlur and
\* from true to false only by reset.
C4_TouchedSinceReset ==
  /\ [](inputState.isTouched = blurred)
  /\ [][/\ (~inputState.isTouched /\ inputState'.isTouched) => lastOp'.op = "onBlur"
        /\ (inputState.isTouched /\ ~inputState'.isTouched) => lastOp'.op = "reset"]_vars

\* C4 witness: the input was blurred and then changed, and is still touched.
C4_Witness ==
  /\ lastOp.op = "onChange"
  /\ before.isTouched
  /\ blurred
  /\ inputState.isTouched

\* C5: onChange(newValue) replaces the value and leaves touched as it was,
\* for every prior state and every string.
C5_ChangeKeepsTouched ==
  lastOp.op = "onChange" =>
    /\ inputState.enteredValue = lastOp.arg
    /\ inputState.isTouched = before.isTouched

\* C5 witness: an untouched input holding a value received another value.
C5_Witness ==
  /\ lastOp.op = "onChange"
  /\ ~before.isTouched
  /\ before.enteredValue # EmptyString
  /\ inputState.enteredValue # before.enteredValue
  /\ ~inputState.isTouched

\* C6: onBlur sets touched to true from any prior state and leaves the value
\* as it was.
C6_BlurSetsTouched ==
  lastOp.op = "onBlur" =>
    /\ inputState.isTouched = TRUE
    /\ inputState.enteredValue = before.enteredValue

\* C6 witness: an input that was already touched and holds a value is blurred
\* again.
C6_Witness ==
  /\ lastOp.op = "onBlur"
  /\ before.isTouched
  /\ before.enteredValue # EmptyString
  /\ inputState.isTouched

\* C7: the hook starts with value "" and touched false, so hasError is false
\* at initialization for every predicate, and the state changes afterwards
\* only by onChange, onBlur and reset.
C7_InitialState ==
  /\ [](lastOp.op = "init" =>
          /\ inputState.enteredValue = EmptyString
          /\ inputState.isTouched = FALSE
          /\ hook.value = EmptyString
          /\ hook.hasError = FALSE)
  /\ [][inputState' # inputState => lastOp'.op \in Operations]_vars

\* C7 witness: the initial render with a predicate that rejects "".
C7_Witness ==
  /\ lastOp.op = "init"
  /\ ~Validate(validateValue, EmptyString)
  /\ ~hook.isValid
  /\ ~hook.hasError

\* C8: with the predicate 'non-empty after trimming', isValid after
\* onChange(s) is true exactly when s has a character that is not white
\* space, whatever touched is and whatever happened before.
C8_TrimPredicate ==
  (validateValue = "notEmptyAfterTrim" /\ lastOp.op = "onChange") =>
    hook.isValid = (\E i \in 1..Len(lastOp.arg) : lastOp.arg[i] \notin Whitespace)

\* C8 witness: a touched input holding a valid name receives a string of
\* white space only.
C8_Witness ==
  /\ validateValue = "notEmptyAfterTrim"
  /\ lastOp.op = "onChange"
  /\ lastOp.arg = <<" ", " ">>
  /\ before.isTouched
  /\ trim(before.enteredValue) # EmptyString
  /\ ~hook.isValid

\* The well-formed states of the reducer.
InputState == [enteredValue : Strings, isTouched : BOOLEAN]

\* C9: every operation (onChange of any string, onBlur, reset) is enabled in
\* every reachable state and the state is always a well-formed InputState.
C9_OperationsTotal ==
  /\ inputState \in InputState
  /\ \A s \in Strings : ENABLED valueChangeHandler(s)
  /\ ENABLED inputBlurHandler
  /\ ENABLED reset

\* C9 witness: a touched input holding a string of the greatest length, where
\* every operation is still enabled.
C9_Witness ==
  /\ inputState.isTouched
  /\ Len(inputState.enteredValue) = MaxLen
  /\ lastOp.op = "onBlur"
  /\ before.isTouched
  /\ ENABLED inputBlurHandler

----------------------------------------------------------------------------
(* Properties of the form snapshots *)

\* The string has a character that is not white space.
HasVisibleChar(s) == \E i \in 1..Len(s) : s[i] \notin Whitespace

\* What a submit event does to one form, from its state f to its state g: it
\* writes the name as it is to the console and clears the name when the name
\* has a visible character, and otherwise writes nothing and keeps the name.
SubmitLogsName(f, g) ==
  IF HasVisibleChar(f.enteredName)
  THEN /\ g.log = Append(f.log, SubmitMessage(f.enteredName))
       /\ g.enteredName = EmptyString
  ELSE /\ g.log = f.log
       /\ g.enteredName = f.enteredName

\* C10: in each form snapshot a submit event logs the entered name exactly
\* when the name is non-empty after trimming; the line logged carries the
\* name as it was at submit time and the name is then cleared; a submit of a
\* name that is empty after trimming logs nothing and keeps the name.
C10_SubmitLogsName ==
  [][lastEvent' = "submit" =>
       /\ SubmitLogsName(part001, part001')
       /\ SubmitLogsName(simpleInput, simpleInput')
       /\ SubmitLogsName(part000, part000')]_vars

\* C10 witness: every form logged the name " a" untrimmed on an earlier
\* submit, and its latest submit, of the name " ", logged nothing and kept
\* the name.
C10_Witness ==
  /\ lastEvent = "submit"
  /\ \A f \in {part001, simpleInput, part000} :
       /\ f.log = <<SubmitMessage(<<" ", "a">>)>>
       /\ f.enteredName = <<" ">>

\* C11: in each form snapshot the error message is not displayed in the
\* initial state and stays hidden, whatever is typed, until the first blur or
\* submit event.
C11_HiddenUntilInteraction ==
  ~interacted =>
    /\ ~part001_errorShown(part001)
    /\ ~simpleInput_nameInputIsInvalid(simpleInput)
    /\ ~part000_nameInputIsInvalid(part000)

\* C11 witness: a name of white space only was typed and no blur or submit
\* event has been delivered yet.
C11_Witness ==
  /\ ~interacted
  /\ lastEvent = "change"
  /\ part000.enteredName = <<" ", " ">>
  /\ simpleInput.enteredName = <<" ", " ">>
  /\ part001.enteredName = <<" ", " ">>
  /\ ~part000_enteredNameIsValid(part000)

\* C12: SimpleInput.js (validity stored, updated on blur and submit) and
\* part_000 (validity derived from the name) display the error message in
\* exactly the same states, for every sequence of change, blur and submit
\* events from the initial state.
C12_SameErrorDisplay ==
  simpleInput_nameInputIsInvalid(simpleInput) = part000_nameInputIsInvalid(part000)

\* C13: in part_000 a submit of a name that is non-empty after trimming ends
\* with touched false and the name "", so no error message is shown; a submit
\* of a name that is empty after trimming ends with touched true, so the
\* error message is shown.
C13_SubmitTouched ==
  [][lastEvent' = "submit" =>
       IF HasVisibleChar(part000.enteredName)
       THEN /\ part000'.enteredNameTouched = FALSE
            /\ part000'.enteredName = EmptyString
            /\ ~part000_nameInputIsInvalid(part000')
       ELSE /\ part000'.enteredNameTouched = TRUE
            /\ part000_nameInputIsInvalid(part000')]_vars

\* C13 witness: a submit has just left part_000 untouched, which only the
\* submit of a valid name does, and its console holds the line of that name.
C13_Witness ==
  /\ lastEvent = "submit"
  /\ part000.enteredNameTouched = FALSE
  /\ part000.enteredName = EmptyString
  /\ part000.log = <<SubmitMessage(<<"a", " ">>)>>
  /\ ~part000_nameInputIsInvalid(part000)

----------------------------------------------------------------------------
(* Properties of the reducer *)

\* C14: in every state of the hook and for all strings a and b, onChange and
\* onBlur commute, onBlur and reset are idempotent, and of two onChange the
\* last one wins.
C14_OperationAlgebra ==
  LET st == inputState
  IN  /\ onBlur(onBlur(st)) = onBlur(st)
      /\ onReset(onReset(st)) = onReset(st)
      /\ \A a \in Strings :
           /\ onBlur(onChange(st, a)) = onChange(onBlur(st), a)
           /\ \A b \in Strings : onChange(onChange(st, a), b) = onChange(st, b)

\* C14 witness: an untouched input holding a value, from which the two orders
\* of onChange and onBlur pass through different states to the same one.
C14_Witness ==
  /\ ~inputState.isTouched
  /\ inputState.enteredValue = <<"a">>
  /\ lastOp.op = "onChange"
  /\ onChange(inputState, <<" ">>) # onBlur(inputState)
  /\ onBlur(onChange(inputState, <<" ">>)) =
       [enteredValue |-> <<" ">>, isTouched |-> TRUE]

\* The action types the reducer has a branch of their own for.
KnownTypes == {"VALUE_CHANGED", "INPUT_BLUR", "RESET_INPUT"}

\* C15: the reducer applied to an action whose type is none of VALUE_CHANGED,
\* INPUT_BLUR, RESET_INPUT returns the initial state {"", false}; it does not
\* leave the state as it was.
C15_UnknownActionResets ==
  (lastOp.op # "init" /\ lastOp.op \notin KnownTypes) =>
    /\ inputState = [enteredValue |-> EmptyString, isTouched |-> FALSE]
    /\ hook.value = EmptyString

\* C15 witness: an action of an unknown type reached the reducer in a touched
\* state holding a value, and the state is the initial one again.
C15_Witness ==
  /\ lastOp.op = "UNKNOWN"
  /\ before.isTouched
  /\ before.enteredValue # EmptyString
  /\ inputState = INITIAL_INPUT_STATE
  /\ inputState # before

====
